---- MODULE Spec2Model ----
(***************************************************************************)
(* pr-notify-bot: the polling cycle update() of the bot and                *)
(* GithubService.getPullRequests, as a state machine.                      *)
(*                                                                         *)
(* The hosting platform (the feed of pull requests), the clock and the     *)
(* cron scheduler are the environment.  One update() invocation is a       *)
(* record of the sequence runs; its steps are cut at the awaits of the     *)
(* code (a page response, the end of Promise.all, one iteration of the     *)
(* publishing loop).                                                       *)
(***************************************************************************)
EXTENDS Integers, Sequences, FiniteSets, TLC

\* ---------------------------------------------------------------- bounds
\* Largest value of the clock (time is a counter of instants).
MaxClock == 2
\* Number of pull requests the repository can hold.
MaxPRs == 2
\* Number of update() invocations the scheduler makes.
MaxTicks == 2
\* Page size of pulls.list. The code asks for per_page: 10 (part_001:133); the
\* model pages by 1 so that a walk over several pages happens in a small feed.
PerPage == 1

\* ------------------------------------------------------------- vocabulary
Null == -1
NoStart == -1
Logins == {"alice", "bob"}
\* IGNORE_USERS after split(',')
IgnoreList == {"bob"}

Min(a, b) == IF a <= b THEN a ELSE b

VARIABLES
    clock,          \* new Date(): the current instant
    feed,           \* the repository's pull requests, most recently updated first
    sinceHonoured,  \* whether the hosting API applies the `since` query parameter
    startFrom,      \* settings.START_FROM (NoStart: not configured)
    ignoreUsers,    \* GithubService._ignoreUsers
    production,     \* process.env.NODE_ENV === 'production'
    lastUpdateOn,   \* GithubService._lastUpdateOn, the watermark
    mutex,          \* the module-level mutex of update()
    runs,           \* the update() invocations that passed the mutex check
    ticks,          \* history: number of update() invocations so far
    lastCall,       \* history: how the last finished getPullRequests call ended
    posted,         \* history: the messages posted so far
    reposted,       \* history: a message was posted that had been posted before
    abandoned,      \* history: the batch of the last cycle that ended in the
                    \* catch of the publishing loop
    socialUrls,     \* listSocialAccountsForUser: the accounts (data) and the
                    \* position of forEach in them (next)
    user,           \* the author record being built, or handed to resolveSocialHandle
    handle          \* what resolveSocialHandle(user) returned (NoHandle: not called)

vars == <<clock, feed, sinceHonoured, startFrom, ignoreUsers, production,
          lastUpdateOn, mutex, runs, ticks, lastCall, posted, reposted,
          abandoned, socialUrls, user, handle>>

config == <<sinceHonoured, startFrom, ignoreUsers, production>>

probe == <<socialUrls, user, handle>>

\* ------------------------------------------------------------ environment
\* A raw pull request of the feed, as pulls.list returns it.
RawPR(n, st, login, created, closed, merged, updated) ==
    [number |-> n, state |-> st, login |-> login, created_at |-> created,
     closed_at |-> closed, merged_at |-> merged, updated_at |-> updated]

\* PullRequestAuthorInfo; "" stands for a field that is undefined or empty
\* (both are falsy).
Author(username, bsky, mastodon, mastodonUrl, twitter, reddit) ==
    [username |-> username, bsky |-> bsky, mastodon |-> mastodon,
     mastodonUrl |-> mastodonUrl, twitter |-> twitter, reddit |-> reddit]

\* The author record of a login (GithubService._githubUserToPullRequestAuthorInfo):
\* alice has linked a Bluesky account, bob no account at all.
AuthorOf(login) ==
    Author(login, IF login = "alice" THEN "alice.bsky.social" ELSE "",
           "", "", "", "")

NoHandle == "none"

\* No social account is being converted.
NoSocials == [data |-> <<>>, next |-> 1]

\* The same chain with the microblogging account tried before the federated one.
resolveTwitterFirst(u) ==
    IF u.bsky # "" THEN "@" \o u.bsky
    ELSE IF u.twitter # "" THEN "https://x.com/" \o u.twitter
    ELSE IF u.mastodon # "" THEN u.mastodonUrl
    ELSE IF u.reddit # "" THEN "https://reddit.com/u/" \o u.reddit
    ELSE "https://github.com/" \o u.username

resolveSocialHandle(u) ==
    IF u.bsky # "" THEN "@" \o u.bsky
    ELSE IF u.mastodon # "" THEN u.mastodonUrl
    ELSE IF u.twitter # "" THEN "https://x.com/" \o u.twitter
    ELSE IF u.reddit # "" THEN "https://reddit.com/u/" \o u.reddit
    ELSE "https://github.com/" \o u.username

\* b is undefined before the first message of a cycle is built.
NoMsg == [kind |-> "undefined", number |-> 0, date |-> 0, mention |-> FALSE,
          ref |-> <<>>]

NoCall == [outcome |-> "none", cause |-> "none", since |-> 0, before |-> 0]

InitialFeeds ==
    { <<>>,
      <<RawPR(1, "open", "alice", 0, Null, Null, 0)>> }

Init ==
    /\ clock = 1
    /\ feed \in InitialFeeds
    /\ sinceHonoured \in BOOLEAN
    /\ startFrom \in {NoStart, 0}
    /\ ignoreUsers = IgnoreList
    /\ production \in BOOLEAN
    /\ lastUpdateOn = clock
    /\ mutex = FALSE
    /\ runs = <<>>
    /\ ticks = 0
    /\ lastCall = NoCall
    /\ posted = {}
    /\ reposted = FALSE
    /\ abandoned = {}
    /\ socialUrls = NoSocials
    /\ user = AuthorOf("alice")
    /\ handle = NoHandle

\* A run of update() that passed the mutex check. since .. rawPulls are the
\* locals of getPullRequests, prs .. b those of update(); before, requests,
\* stable, produced, lookups (the logins whose profile the call requested, in
\* order) and out (the messages the cycle built, in order) are history fields.
NewRun(since, wm) ==
    [pc |-> "fetch", since |-> since, before |-> wm, page |-> 0,
     requests |-> 0, rawPulls |-> <<>>, stable |-> TRUE, prs |-> <<>>,
     idx |-> 1, b |-> NoMsg, produced |-> 0, lookups |-> <<>>, out |-> <<>>]

Drop(s, i) == SubSeq(s, 1, i - 1) \o SubSeq(s, i + 1, Len(s))

\* The feed changed: the walks in progress no longer see one fixed feed.
Unstable(rs) ==
    [i \in DOMAIN rs |->
        IF rs[i].pc \in {"fetch", "process"}
        THEN [rs[i] EXCEPT !.stable = FALSE] ELSE rs[i]]

\* Time passes.
Advance ==
    /\ clock < MaxClock
    /\ clock' = clock + 1
    /\ UNCHANGED <<feed, config, probe, lastUpdateOn, mutex, runs, ticks, lastCall, posted, reposted, abandoned>>

\* Somebody opens a pull request (ready for review, or as a draft).
OpenPR(login, st) ==
    /\ Len(feed) < MaxPRs
    /\ feed' = <<RawPR(Len(feed) + 1, st, login, clock, Null, Null, clock)>> \o feed
    /\ runs' = Unstable(runs)
    /\ UNCHANGED <<clock, config, probe, lastUpdateOn, mutex, ticks, lastCall, posted, reposted, abandoned>>

\* A pull request is closed without merging, or merged; it becomes the most
\* recently updated one.
ClosePR(k, st) ==
    /\ k \in DOMAIN feed
    /\ feed[k].state \in {"open", "draft"}
    /\ LET pr == [feed[k] EXCEPT !.state = st,
                                 !.closed_at = clock,
                                 !.merged_at = IF st = "merged" THEN clock ELSE Null,
                                 !.updated_at = clock]
       IN feed' = <<pr>> \o Drop(feed, k)
    /\ runs' = Unstable(runs)
    /\ UNCHANGED <<clock, config, probe, lastUpdateOn, mutex, ticks, lastCall, posted, reposted, abandoned>>

\* ------------------------------------------------------ getPullRequests
\* const since = (startFrom ?? this._lastUpdateOn)
Since(sf, wm) == IF sf # NoStart THEN sf ELSE wm

\* What pulls.list serves for a `since`: the feed, cut to the pull requests
\* updated at or after `since` when the hosting API applies the parameter.
Served(since) ==
    IF sinceHonoured
    THEN SelectSeq(feed, LAMBDA x : x.updated_at >= since)
    ELSE feed

\* Page p (from 0) of a list.
PageOf(list, p) ==
    SubSeq(list, p * PerPage + 1, Min((p + 1) * PerPage, Len(list)))

\* response.data[response.data.length - 1].updated_at < this._lastUpdateOn
LastIsOlder(data, wm) == data[Len(data)].updated_at < wm

\* satisfied after a page response
Satisfied(data, wm) == data = <<>> \/ LastIsOlder(data, wm)

\* new Date(x): new Date(null) is the epoch
DateOf(t) == IF t = Null THEN 0 ELSE t


\* The callback of rawPulls.map: the state, its lifecycle date and the author
ToInfo(raw) ==
    [number |-> raw.number,
     state |-> raw.state,
     updatedAt |-> CASE raw.state = "open" -> DateOf(raw.created_at)
                     [] raw.state = "closed" -> DateOf(raw.closed_at)
                     [] raw.state = "merged" -> DateOf(raw.merged_at)
                     [] raw.state = "draft" -> DateOf(raw.created_at),
     author |-> AuthorOf(raw.login)]

\* The synchronous part of the map callbacks, run one after the other when
\* rawPulls.map is called: a callback requests its author's profile unless the
\* cache users holds the login. The cache is written only after the awaits of
\* a callback (line 197), so every callback still finds it as the map found it.
RECURSIVE ProfileRequests(_, _)
ProfileRequests(raws, users) ==
    IF raws = <<>>
    THEN <<>>
    ELSE (IF Head(raws).login \notin users THEN <<Head(raws).login>> ELSE <<>>)
         \o ProfileRequests(Tail(raws), users)

MapInfo(raws) == [k \in DOMAIN raws |-> ToInfo(raws[k])]

\* (mutant) the ignore list is not consulted
IgnoresNobody(pr) == TRUE

\* Discard PRs from ignored users
NotIgnored(pr) == pr.author.username \notin ignoreUsers

\* (mutant) the date filter compares the wrong way round
NotNewer(pr, wm) == pr.updatedAt <= wm

\* Discard PRs that are older than the last update
NotOlder(pr, wm) == pr.updatedAt >= wm

\* (mutant) the watermark is set to the start of the queried window
WatermarkFromSince(now, since) == since

\* this._lastUpdateOn = new Date()
NewWatermark(now, since) == now

\* (mutant) the catch of a failed fetch returns without releasing the mutex
MutexLeftEngaged == TRUE

\* mutex after the catch of a failed fetch
MutexAfterFetchError == FALSE

\* (mutant) the guard of update() never finds the mutex taken
LockedNever == FALSE

\* guard of update()
Locked == mutex

\* update(): the cron job fires. A locked mutex makes it return at once;
\* otherwise it takes the mutex and getPullRequests sends its first request.
update ==
    /\ ticks < MaxTicks
    /\ ticks' = ticks + 1
    /\ IF Locked
       THEN UNCHANGED <<mutex, runs>>
       ELSE /\ mutex' = TRUE
            /\ runs' = Append(runs,
                   NewRun(Since(startFrom, lastUpdateOn), lastUpdateOn))
    /\ UNCHANGED <<clock, feed, config, probe, lastUpdateOn, lastCall, posted, reposted, abandoned>>

\* getPullRequests throws; update() logs, releases the mutex and returns.
Throw(i, cause) ==
    /\ mutex' = MutexAfterFetchError
    /\ lastCall' = [outcome |-> "throw", cause |-> cause,
                    since |-> runs[i].since, before |-> runs[i].before]
    /\ runs' = Drop(runs, i)
    /\ UNCHANGED <<clock, feed, config, probe, lastUpdateOn, ticks, posted, reposted, abandoned>>

\* A page of pulls.list arrives. After the last page rawPulls.map starts the
\* callbacks, which send their profile requests.
PageResponse(i) ==
    /\ i \in DOMAIN runs
    /\ runs[i].pc = "fetch"
    /\ LET r == runs[i]
           data == PageOf(Served(r.since), r.page)
           satisfied == Satisfied(data, lastUpdateOn)
           raws == IF data = <<>> THEN r.rawPulls ELSE r.rawPulls \o data
       IN runs' = [runs EXCEPT ![i] =
              [r EXCEPT !.requests = r.requests + 1,
                        !.page = IF data # <<>> /\ ~satisfied THEN r.page + 1 ELSE r.page,
                        !.rawPulls = raws,
                        !.pc = IF satisfied THEN "process" ELSE "fetch",
                        !.lookups = IF satisfied THEN ProfileRequests(raws, {}) ELSE <<>>]]
    /\ UNCHANGED <<clock, feed, config, probe, lastUpdateOn, mutex, ticks, lastCall, posted, reposted, abandoned>>

\* The page request fails.
PageFailed(i) ==
    /\ i \in DOMAIN runs
    /\ runs[i].pc = "fetch"
    /\ Throw(i, "request")

\* A user-profile or social-accounts request fails.
LookupFailed(i) ==
    /\ i \in DOMAIN runs
    /\ runs[i].pc = "process"
    /\ runs[i].rawPulls # <<>>
    /\ Throw(i, "request")

\* Promise.all ends: the two filters, the new watermark, the batch is returned.
\* rawPulls is still undefined when no page held anything: rawPulls!.map throws.
Processed(i) ==
    /\ i \in DOMAIN runs
    /\ runs[i].pc = "process"
    /\ LET r == runs[i]
           pulls == SelectSeq(SelectSeq(MapInfo(r.rawPulls), NotIgnored),
                              LAMBDA pr : NotOlder(pr, lastUpdateOn))
       IN IF r.rawPulls = <<>>
          THEN Throw(i, "TypeError")
          ELSE /\ lastUpdateOn' = NewWatermark(clock, r.since)
               /\ lastCall' = [outcome |-> "ok", cause |-> "none",
                               since |-> r.since, before |-> r.before]
               /\ runs' = [runs EXCEPT ![i] =
                      [r EXCEPT !.pc = "publish", !.prs = pulls, !.stable = FALSE]]
               /\ UNCHANGED <<clock, feed, config, probe, mutex, ticks, posted, reposted, abandoned>>

\* ----------------------------------------------- update(): publishing loop
\* The message built for a pull request (template of its state, its number,
\* its lifecycle date, an at-mention when the author's handle resolved).
\* bluesky.agent.resolveHandle({ handle }).data.did
Did(h) == "did:plc:" \o h

\* The author reference of a message: addMention when a DID was resolved,
\* addLink with the resolveSocialHandle text otherwise.
AuthorRef(author) ==
    IF author.bsky # ""
    THEN <<"mention", "@" \o author.bsky, Did(author.bsky)>>
    ELSE <<"link", resolveSocialHandle(author), author.username>>

Msg(pr) ==
    [kind |-> pr.state, number |-> pr.number, date |-> pr.updatedAt,
     mention |-> pr.author.bsky # "", ref |-> AuthorRef(pr.author)]

\* switch(pr.state): b after the switch. b is declared before the loop, and
\* the draft case leaves it as the previous iteration set it.
Compose(b, pr) == IF pr.state = "draft" THEN b ELSE Msg(pr)

\* if(b !== undefined)
Built(b) == b # NoMsg

\* One iteration of the loop: resolve the handle, build the message, post it
\* in production mode, wait 3 seconds.
PublishNext(i) ==
    /\ i \in DOMAIN runs
    /\ runs[i].pc = "publish"
    /\ runs[i].idx <= Len(runs[i].prs)
    /\ LET r == runs[i]
           b2 == Compose(r.b, r.prs[r.idx])
       IN /\ runs' = [runs EXCEPT ![i] =
                 [r EXCEPT !.b = b2, !.idx = r.idx + 1,
                           !.produced = IF Built(b2) THEN r.produced + 1 ELSE r.produced,
                           !.out = IF Built(b2) THEN Append(r.out, b2) ELSE r.out]]
          /\ IF Built(b2) /\ production
             THEN /\ posted' = posted \cup {b2}
                  /\ reposted' = (reposted \/ b2 \in posted)
             ELSE UNCHANGED <<posted, reposted>>
    /\ UNCHANGED <<clock, feed, config, probe, lastUpdateOn, mutex, ticks, lastCall, abandoned>>

\* The last statement of update() forgotten: the mutex stays taken.
MutexHeldAtEnd == TRUE

\* mutex = false, the last statement of update() (and of its catch).
MutexAtEnd == FALSE

\* catch (e) of the publishing loop: the mutex is released and the cycle
\* ends; nothing of the iteration was posted, the rest of the batch is left.
Caught(i) ==
    /\ mutex' = MutexAtEnd
    /\ runs' = Drop(runs, i)
    /\ abandoned' = {runs[i].prs[k] : k \in DOMAIN runs[i].prs}
    /\ UNCHANGED <<clock, feed, config, probe, lastUpdateOn, ticks, lastCall, posted, reposted>>

\* The iteration has reached the pull request and resolveHandle is called.
Resolving(i) ==
    /\ i \in DOMAIN runs
    /\ runs[i].pc = "publish"
    /\ runs[i].idx <= Len(runs[i].prs)
    /\ runs[i].prs[runs[i].idx].author.bsky # ""

\* The iteration has a message to post in production mode.
Posting(i) ==
    /\ i \in DOMAIN runs
    /\ runs[i].pc = "publish"
    /\ runs[i].idx <= Len(runs[i].prs)
    /\ Built(Compose(runs[i].b, runs[i].prs[runs[i].idx]))
    /\ production

\* bluesky.agent.resolveHandle fails.
HandleFailed(i) == Resolving(i) /\ Caught(i)

\* getPullRequestEmbed fails, or uploadImageFromUrl does (the fetch of the
\* image, of an undefined imageUrl when the page has no og:image, the upload
\* of the blob): the post record is never completed.
PreviewFailed(i) == Posting(i) /\ Caught(i)

\* bluesky.post fails.
PostFailed(i) == Posting(i) /\ Caught(i)

\* A network call of the iteration fails (resolveHandle, the preview, the
\* upload, the post): the catch releases the mutex and the cycle ends.
PublishFailed(i) ==
    \/ HandleFailed(i)
    \/ PreviewFailed(i)
    \/ PostFailed(i)

\* The loop is over: the mutex is released.
Finished(i) ==
    /\ i \in DOMAIN runs
    /\ runs[i].pc = "publish"
    /\ runs[i].idx > Len(runs[i].prs)
    /\ mutex' = MutexAtEnd
    /\ runs' = Drop(runs, i)
    /\ UNCHANGED <<clock, feed, config, probe, lastUpdateOn, ticks, lastCall, posted, reposted, abandoned>>

Next ==
    \/ Advance
    \/ \E login \in Logins, st \in {"open", "draft"} : OpenPR(login, st)
    \/ \E k \in 1..MaxPRs, st \in {"closed", "merged"} : ClosePR(k, st)
    \/ update
    \/ \E i \in 1..MaxTicks : PageResponse(i)
    \/ \E i \in 1..MaxTicks : PageFailed(i)
    \/ \E i \in 1..MaxTicks : LookupFailed(i)
    \/ \E i \in 1..MaxTicks : Processed(i)
    \/ \E i \in 1..MaxTicks : PublishNext(i)
    \/ \E i \in 1..MaxTicks : PublishFailed(i)
    \/ \E i \in 1..MaxTicks : Finished(i)

Spec == Init /\ [][Next]_vars

\* The next step of a cycle: the network call it waits for returns or fails,
\* or the code between two calls runs.
Step(i) ==
    \/ PageResponse(i)
    \/ PageFailed(i)
    \/ LookupFailed(i)
    \/ Processed(i)
    \/ PublishNext(i)
    \/ PublishFailed(i)
    \/ Finished(i)

\* Every network call returns or fails, and the event loop runs the code that
\* waits for it.
Fairness == WF_vars(\E i \in 1..MaxTicks : Step(i))

\* The bot deployed: production mode, no START_FROM, a hosting API that
\* applies `since`.
InitProduction ==
    /\ clock = 1
    /\ feed \in InitialFeeds
    /\ sinceHonoured = TRUE
    /\ startFrom = NoStart
    /\ ignoreUsers = IgnoreList
    /\ production = TRUE
    /\ lastUpdateOn = clock
    /\ mutex = FALSE
    /\ runs = <<>>
    /\ ticks = 0
    /\ lastCall = NoCall
    /\ posted = {}
    /\ reposted = FALSE
    /\ abandoned = {}
    /\ socialUrls = NoSocials
    /\ user = AuthorOf("alice")
    /\ handle = NoHandle

SpecProduction == InitProduction /\ [][Next]_vars

FairSpec == SpecProduction /\ Fairness

\* The cycles when every request is answered and every post goes through.
NextNoFail ==
    \/ Advance
    \/ \E login \in Logins, st \in {"open", "draft"} : OpenPR(login, st)
    \/ \E k \in 1..MaxPRs, st \in {"closed", "merged"} : ClosePR(k, st)
    \/ update
    \/ \E i \in 1..MaxTicks : PageResponse(i)
    \/ \E i \in 1..MaxTicks : Processed(i)
    \/ \E i \in 1..MaxTicks : PublishNext(i)
    \/ \E i \in 1..MaxTicks : Finished(i)

SpecNoFail == InitProduction /\ [][NextNoFail]_vars

\* ---------------------------------------------- resolveSocialHandle probe
\* The author records _githubUserToPullRequestAuthorInfo can build from the
\* social accounts of a user: mastodonUrl is stored before the URL is parsed,
\* so a record can hold the URL without the username, never the reverse.
Authors ==
    { Author(n, b, m[1], m[2], t, r) :
        n \in Logins,
        b \in {"", "alice.bsky.social"},
        m \in { <<"", "">>, <<"", "mastodon.social/@alice">>,
                <<"alice@mastodon.social", "https://mastodon.social/@alice">> },
        t \in {"", "alice", "bob"},
        r \in {"", "alice"} }

InitHandle ==
    /\ clock = 1
    /\ feed = <<>>
    /\ sinceHonoured = TRUE
    /\ startFrom = NoStart
    /\ ignoreUsers = IgnoreList
    /\ production = FALSE
    /\ lastUpdateOn = clock
    /\ mutex = FALSE
    /\ runs = <<>>
    /\ ticks = 0
    /\ lastCall = NoCall
    /\ posted = {}
    /\ reposted = FALSE
    /\ abandoned = {}
    /\ socialUrls = NoSocials
    /\ user \in Authors
    /\ handle = NoHandle

\* resolveSocialHandle is called with the record.
Resolve ==
    /\ handle = NoHandle
    /\ handle' = resolveSocialHandle(user)
    /\ UNCHANGED <<clock, feed, config, socialUrls, user, lastUpdateOn, mutex, runs, ticks,
                   lastCall, posted, reposted, abandoned>>

SpecHandle == InitHandle /\ [][Resolve]_vars

\* ------------------------------------ _githubUserToPullRequestAuthorInfo
\* A string is a sequence of tokens, the separators the code splits at
\* ("/profile/", "/u/", "/", "@") being tokens of their own.
RECURSIVE Join(_)
Join(tokens) == IF tokens = <<>> THEN "" ELSE Head(tokens) \o Join(Tail(tokens))

\* str.split(sep).pop(): what follows the last sep, the whole string without one.
SplitPop(tokens, sep) ==
    LET at == {k \in DOMAIN tokens : tokens[k] = sep}
        last == IF at = {} THEN 0 ELSE CHOOSE k \in at : \A j \in at : j <= k
    IN Join(SubSeq(tokens, last + 1, Len(tokens)))

\* A URL string https://host/path and what new URL() makes of it.
Url(host, path) ==
    [text |-> <<"https:", "/", "/", host>> \o path, valid |-> TRUE,
     hostname |-> host, pathname |-> path]

\* A string new URL() throws on.
NotUrl(text) == [text |-> text, valid |-> FALSE, hostname |-> "", pathname |-> <<>>]

Social(provider, url) == [provider |-> provider, url |-> url]

\* case 'bluesky': author.bsky after the try/catch.
BlueskyHandle(author, url) ==
    IF ~url.valid THEN author.bsky
    ELSE IF url.hostname # "bsky.app" THEN author.bsky
    ELSE LET username == SplitPop(url.pathname, "/profile/")
         IN IF username = "" THEN author.bsky ELSE username

\* case 'mastodon': author.mastodon after the try/catch. The field is stored
\* before the length of the username is tested; the throw comes after it.
MastodonHandle(author, url) ==
    IF ~url.valid THEN author.mastodon
    ELSE SplitPop(url.pathname, "@") \o "@" \o url.hostname

\* The callback of socialUrls.data.forEach.
ForEachSocial(author, social) ==
    CASE social.provider = "bluesky" ->
            [author EXCEPT !.bsky = BlueskyHandle(author, social.url)]
      [] social.provider = "twitter" ->
            [author EXCEPT !.twitter = SplitPop(social.url.text, "/")]
      [] social.provider = "reddit" ->
            [author EXCEPT !.reddit = SplitPop(social.url.text, "/u/")]
      [] social.provider = "mastodon" ->
            [author EXCEPT !.mastodonUrl = Join(social.url.text),
                           !.mastodon = MastodonHandle(author, social.url)]
      [] OTHER -> author

\* The social accounts a user may have linked.
Socials ==
    { Social("bluesky", Url("bsky.app", <<"/profile/", "alice.bsky.social">>)),
      Social("bluesky", Url("bsky.app", <<"/profile/">>)),
      Social("bluesky", Url("example.com", <<"/profile/", "alice.bsky.social">>)),
      Social("bluesky", NotUrl(<<"alice.bsky.social">>)),
      Social("mastodon", Url("mastodon.social", <<"/", "@", "alice">>)),
      Social("mastodon", Url("mastodon.social", <<"/", "@">>)),
      Social("mastodon", NotUrl(<<"@", "alice">>)),
      Social("twitter", Url("x.com", <<"/", "alice">>)),
      Social("reddit", Url("reddit.com", <<"/u/", "alice">>)),
      Social("linkedin", Url("linkedin.com", <<"/", "alice">>)) }

\* Longest list of social accounts of a user.
MaxSocials == 2

SocialLists ==
    UNION { [1..n -> Socials] : n \in 0..MaxSocials }

InitSocial ==
    /\ clock = 1
    /\ feed = <<>>
    /\ sinceHonoured = TRUE
    /\ startFrom = NoStart
    /\ ignoreUsers = IgnoreList
    /\ production = FALSE
    /\ lastUpdateOn = clock
    /\ mutex = FALSE
    /\ runs = <<>>
    /\ ticks = 0
    /\ lastCall = NoCall
    /\ posted = {}
    /\ reposted = FALSE
    /\ abandoned = {}
    /\ \E list \in SocialLists : socialUrls = [data |-> list, next |-> 1]
    /\ user = Author("alice", "", "", "", "", "")
    /\ handle = NoHandle

\* forEach calls its callback on the next account of the list.
NextSocial ==
    /\ socialUrls.next <= Len(socialUrls.data)
    /\ user' = ForEachSocial(user, socialUrls.data[socialUrls.next])
    /\ socialUrls' = [socialUrls EXCEPT !.next = socialUrls.next + 1]
    /\ UNCHANGED <<clock, feed, config, handle, lastUpdateOn, mutex, runs, ticks,
                   lastCall, posted, reposted, abandoned>>

\* return author: the record goes to the caller, which resolves its reference.
ReturnAuthor ==
    /\ socialUrls.next > Len(socialUrls.data)
    /\ Resolve

SpecSocial == InitSocial /\ [][NextSocial \/ ReturnAuthor]_vars

\* A repository whose feed holds a pull request without the timestamp its
\* state requires: closed without close time, merged without merge time.
MalformedFeeds ==
    { <<RawPR(1, "closed", "alice", 0, Null, Null, 1)>>,
      <<RawPR(1, "merged", "alice", 0, 1, Null, 1)>> }

InitMalformed ==
    /\ clock = 1
    /\ feed \in MalformedFeeds
    /\ sinceHonoured \in BOOLEAN
    /\ startFrom \in {NoStart, 0}
    /\ ignoreUsers = IgnoreList
    /\ production \in BOOLEAN
    /\ lastUpdateOn = clock
    /\ mutex = FALSE
    /\ runs = <<>>
    /\ ticks = 0
    /\ lastCall = NoCall
    /\ posted = {}
    /\ reposted = FALSE
    /\ abandoned = {}
    /\ socialUrls = NoSocials
    /\ user = AuthorOf("alice")
    /\ handle = NoHandle

SpecMalformed == InitMalformed /\ [][Next]_vars

\* ================================================================ claims

InFlight(r) == r.pc \in {"fetch", "process"}

\* ---- C1
\* update() invoked while the mutex is taken
DroppedTick == ticks' # ticks /\ mutex

\* C1 (mutex exclusivity): at every moment at most one update() invocation is
\* past the mutex check, and the mutex is taken while it is; an invocation
\* that finds the mutex taken changes nothing (no fetch, no post, watermark and
\* mutex as they were, nothing queued for later).
C1_MutexExclusivity ==
    /\ [](Len(runs) <= 1 /\ (runs # <<>> => mutex))
    /\ [][DroppedTick =>
            UNCHANGED <<clock, feed, config, probe, lastUpdateOn, mutex, runs,
                        lastCall, posted, reposted, abandoned>>]_vars

\* Two invocations were made, one cycle is running and no getPullRequests call
\* has ended yet: the other invocation was dropped.
C1_Witness ==
    /\ ticks = 2
    /\ Len(runs) = 1
    /\ mutex
    /\ lastCall.outcome = "none"

\* ---- C2
\* C2 (watermark monotonicity): no step, of a successful or a failing call,
\* moves the watermark backward.
C2_WatermarkMonotone == [][lastUpdateOn' >= lastUpdateOn]_vars

\* A second call has ended successfully, after a first one that had advanced
\* the watermark.
C2_Witness ==
    /\ ticks = 2
    /\ lastCall.outcome = "ok"
    /\ lastCall.before > 1
    /\ lastUpdateOn >= lastCall.before

\* ---- C3
\* A step in which run i ends because a request of its getPullRequests failed
RequestFailed(i) ==
    /\ i \in DOMAIN runs
    /\ InFlight(runs[i])
    /\ runs' = Drop(runs, i)
    /\ lastCall'.outcome = "throw"
    /\ lastCall'.cause = "request"

\* C3 (no skip on failure): when a page, profile or social-accounts request
\* fails, the watermark is left exactly as it was when the call began and the
\* mutex is released; a call made after the failed one asks for the same
\* window, with the same `since` and the same filter bound.
C3_NoSkipOnFailure ==
    /\ [][\A i \in 1..MaxTicks : RequestFailed(i) =>
            /\ lastUpdateOn' = runs[i].before
            /\ lastUpdateOn' = lastUpdateOn
            /\ mutex' = FALSE
            /\ runs' = <<>>]_vars
    /\ [](\A i \in DOMAIN runs :
            InFlight(runs[i]) /\ lastCall.outcome = "throw" =>
                /\ runs[i].since = lastCall.since
                /\ runs[i].before = lastCall.before
                /\ lastUpdateOn = lastCall.before)

\* A call failed on a request, time has passed, and the next cycle has sent
\* its request for the same window and received a page.
C3_Witness ==
    /\ lastCall.outcome = "throw"
    /\ lastCall.cause = "request"
    /\ Len(runs) = 1
    /\ InFlight(runs[1])
    /\ runs[1].requests > 0
    /\ runs[1].since = lastCall.since
    /\ clock > lastCall.before

\* ---- C4
\* C4 (at-most-once delivery): no message of a lifecycle change (number, state,
\* lifecycle date) is posted a second time, in the same cycle or a later one.
C4_AtMostOnce == ~reposted

\* ---- C5
Numbers(prs) == {prs[k].number : k \in DOMAIN prs}

\* C5 (batch de-duplication): the batch getPullRequests returns holds each
\* pull-request number at most once.
C5_BatchDeduplicated ==
    \A i \in DOMAIN runs :
        runs[i].pc = "publish" => Cardinality(Numbers(runs[i].prs)) = Len(runs[i].prs)

\* ---- C6
\* The lifecycle timestamp of a raw pull request: creation for open and draft,
\* close for closed, merge for merged.
Lifecycle(raw) ==
    CASE raw.state \in {"open", "draft"} -> raw.created_at
      [] raw.state = "closed" -> raw.closed_at
      [] raw.state = "merged" -> raw.merged_at

\* raw was handed on in the batch
InBatch(r, raw) ==
    \E k \in DOMAIN r.prs :
        r.prs[k].number = raw.number /\ r.prs[k].state = raw.state

\* C6 (watermark lower bound): every pull request of a returned batch has a
\* lifecycle timestamp at or after the watermark in effect when the call began.
C6_WatermarkLowerBound ==
    \A i \in DOMAIN runs :
        runs[i].pc = "publish" =>
            /\ \A k \in DOMAIN runs[i].prs : runs[i].prs[k].updatedAt >= runs[i].before
            /\ \A k \in DOMAIN runs[i].rawPulls :
                   InBatch(runs[i], runs[i].rawPulls[k]) =>
                       Lifecycle(runs[i].rawPulls[k]) >= runs[i].before

\* A walk fetched a not-ignored pull request older than the watermark and a
\* newer one; the batch is not empty and the older one is not in it.
C6_Witness ==
    \E i \in DOMAIN runs :
        /\ runs[i].pc = "publish"
        /\ runs[i].prs # <<>>
        /\ \E k \in DOMAIN runs[i].rawPulls :
               /\ runs[i].rawPulls[k].login \notin ignoreUsers
               /\ Lifecycle(runs[i].rawPulls[k]) < runs[i].before
               /\ ~InBatch(runs[i], runs[i].rawPulls[k])

\* ---- C7
\* C7 (ignore-list exclusion): no pull request of a returned batch has an
\* author of the ignore list, whatever its timestamp and state.
C7_IgnoreListExclusion ==
    \A i \in DOMAIN runs :
        runs[i].pc = "publish" =>
            /\ \A k \in DOMAIN runs[i].prs :
                   runs[i].prs[k].author.username \notin ignoreUsers
            /\ \A k \in DOMAIN runs[i].rawPulls :
                   runs[i].rawPulls[k].login \in ignoreUsers =>
                       ~InBatch(runs[i], runs[i].rawPulls[k])

\* A walk fetched a pull request of an ignored author that is not older than
\* the watermark, and the batch was returned.
C7_Witness ==
    \E i \in DOMAIN runs :
        /\ runs[i].pc = "publish"
        /\ \E k \in DOMAIN runs[i].rawPulls :
               /\ runs[i].rawPulls[k].login \in ignoreUsers
               /\ Lifecycle(runs[i].rawPulls[k]) >= runs[i].before
               /\ runs[i].rawPulls[k].state # "open"

\* ---- C8
NonDrafts(prs, n) == Cardinality({k \in 1..n : prs[k].state # "draft"})

\* C8 (draft suppression): the publishing loop produces no message for a draft
\* pull request, wherever it stands in the batch: after any number of
\* iterations the messages produced are as many as the non-draft pull requests
\* processed.
C8_DraftSuppression ==
    \A i \in DOMAIN runs :
        runs[i].pc = "publish" =>
            runs[i].produced = NonDrafts(runs[i].prs, runs[i].idx - 1)

\* ---- C9
\* Number of non-empty pages of a list
Pages(list) == (Len(list) + PerPage - 1) \div PerPage

\* The pages whose oldest item is older than `since`
OlderPages(list, since) ==
    {p \in 0..(Pages(list) - 1) :
        PageOf(list, p)[Len(PageOf(list, p))].updated_at < since}

SetMin(S) == CHOOSE x \in S : \A y \in S : x <= y

\* K + 1 for the first page K whose oldest item is older than `since`; without
\* such a page, the requests up to and including the first empty page.
ExpectedRequests(list, since) ==
    IF OlderPages(list, since) # {}
    THEN SetMin(OlderPages(list, since)) + 1
    ELSE Pages(list) + 1

\* C9 (pagination termination): on a feed that does not change during the
\* walk, the walker makes K + 1 page requests, K the first page whose oldest
\* item is older than `since` (or stops at the first empty page), and has
\* accumulated the pages 0..K.
C9_PaginationTermination ==
    \A i \in DOMAIN runs :
        runs[i].pc = "process" /\ runs[i].stable =>
            LET list == Served(runs[i].since)
                n == ExpectedRequests(list, runs[i].since)
            IN /\ runs[i].requests = n
               /\ runs[i].rawPulls = SubSeq(list, 1, Min(n * PerPage, Len(list)))

\* ---- C10
\* C10 (watermark advances on zero-result ticks): a call in which no request
\* failed does not fail: it returns a batch, the empty one when the first page
\* is empty, and the watermark is not behind the value the call began with.
C10_ZeroResultAdvances ==
    /\ lastCall.outcome = "throw" => lastCall.cause = "request"
    /\ lastCall.outcome = "ok" => lastUpdateOn >= lastCall.before

\* ---- C11
\* C11 (missing lifecycle timestamp is an error): a call that fetched a pull
\* request lacking the timestamp of its state does not return a batch: no run
\* reaches the publishing loop with such a pull request among its raw pulls.
C11_MissingTimestampIsError ==
    \A i \in DOMAIN runs :
        runs[i].pc = "publish" =>
            \A k \in DOMAIN runs[i].rawPulls : Lifecycle(runs[i].rawPulls[k]) # Null

\* ---- C12
Count(seq, x) == Cardinality({k \in DOMAIN seq : seq[k] = x})

\* C12 (author cache): within one getPullRequests call the profile of a
\* username is requested at most once, however many pull requests of the walk
\* have that author.
C12_AuthorCache ==
    \A i \in DOMAIN runs :
        \A login \in Logins : Count(runs[i].lookups, login) <= 1

\* ---- C13
\* The networks in the order of the policy, the hosting platform last.
Networks == <<"bsky", "mastodon", "twitter", "reddit", "github">>

\* The network is present on the record; the hosting platform always is.
Present(u, net) ==
    CASE net = "bsky" -> u.bsky # ""
      [] net = "mastodon" -> u.mastodon # ""
      [] net = "twitter" -> u.twitter # ""
      [] net = "reddit" -> u.reddit # ""
      [] net = "github" -> TRUE

\* The reference of the record on the network.
Reference(u, net) ==
    CASE net = "bsky" -> "@" \o u.bsky
      [] net = "mastodon" -> u.mastodonUrl
      [] net = "twitter" -> "https://x.com/" \o u.twitter
      [] net = "reddit" -> "https://reddit.com/u/" \o u.reddit
      [] net = "github" -> "https://github.com/" \o u.username

FirstPresent(u) ==
    Networks[SetMin({k \in DOMAIN Networks : Present(u, Networks[k])})]

\* C13 (handle fallback order): resolveSocialHandle returns the reference of
\* the first network present on the record, in the order decentralized handle,
\* federated profile URL, microblogging URL, link-aggregator URL, hosting
\* platform URL; a record with a federated identity and no decentralized
\* handle yields the federated profile URL, not the hosting-platform one.
C13_HandleFallbackOrder ==
    handle # NoHandle =>
        /\ handle = Reference(user, FirstPresent(user))
        /\ (user.bsky = "" /\ user.mastodon # "") =>
               /\ handle = user.mastodonUrl
               /\ handle # Reference(user, "github")

\* A record with a federated and a microblogging identity and no decentralized
\* handle was resolved.
C13_Witness ==
    /\ handle # NoHandle
    /\ user.bsky = ""
    /\ user.mastodon # ""
    /\ user.twitter # ""

\* ---- C14
\* C14 (preview failures do not block text delivery): in production mode, when
\* the preview of a pull request cannot be scraped or its image uploaded, the
\* text message of that pull request is posted all the same and the cycle goes
\* on to the next pull request of the batch.
C14_PreviewFailureKeepsText ==
    [][\A i \in 1..MaxTicks :
          PreviewFailed(i) =>
              /\ Compose(runs[i].b, runs[i].prs[runs[i].idx]) \in posted'
              /\ i \in DOMAIN runs'
              /\ runs'[i].idx = runs[i].idx + 1]_vars

\* ---- C15
\* The invocation that passed the mutex check ends in this step.
Ends(i) == i \in DOMAIN runs /\ Len(runs') < Len(runs)

\* C15 (return to Idle): an update() invocation that took the mutex releases
\* it when it ends, on the fetch-failure path, after the batch and in the
\* catch of the publishing loop; the mutex is free whenever no invocation is
\* running, and when every network call returns or fails a taken mutex is
\* always released eventually.
C15_ReturnToIdle ==
    /\ [][\A i \in 1..MaxTicks : Ends(i) => mutex' = FALSE]_vars
    /\ [](runs = <<>> => ~mutex)
    /\ (mutex ~> ~mutex)

\* A second cycle is running after the first one ended in the catch of its
\* getPullRequests call.
C15_Witness ==
    /\ ticks = 2
    /\ mutex
    /\ Len(runs) = 1
    /\ runs[1].pc = "fetch"
    /\ lastCall.outcome = "throw"

\* ---- C16
\* C16 as stated (watermark commit ordering): a cycle changes the watermark
\* only when the whole batch has been published, never before or during the
\* publishing.
C16_CommitAfterBatch ==
    [][lastUpdateOn' # lastUpdateOn => \E i \in 1..MaxTicks : Finished(i)]_vars

\* getPullRequests returns its batch to update() in this step.
Returns(i) == Processed(i) /\ i \in DOMAIN runs' /\ runs'[i].pc = "publish"

\* C16 as the code has it: the watermark changes only in the step in which
\* getPullRequests returns the batch, where it becomes the current instant,
\* before the caller has published anything; no step of the publishing loop,
\* failed or not, changes it.
C16_CommitOnReturn ==
    /\ [][lastUpdateOn' # lastUpdateOn => \E i \in 1..MaxTicks : Returns(i)]_vars
    /\ [][\A i \in 1..MaxTicks :
            Returns(i) => lastUpdateOn' = clock /\ runs'[i].idx = 1]_vars
    /\ [][\A i \in 1..MaxTicks :
            PublishNext(i) \/ PublishFailed(i) \/ Finished(i) =>
                lastUpdateOn' = lastUpdateOn]_vars

\* The watermark has moved and the first pull request of the batch is still
\* to be published.
C16_Witness ==
    \E i \in DOMAIN runs :
        /\ runs[i].pc = "publish"
        /\ runs[i].idx = 1
        /\ runs[i].prs # <<>>
        /\ lastUpdateOn > runs[i].before

\* ---- C17
\* C17 (publish failure mid-batch): when the processing of an item of the
\* batch throws, the cycle ends there, the items after it are not processed in
\* that cycle, and no later cycle has in its batch an item of that batch:
\* neither the items published before the failure nor the failed item and
\* those after it come again.
C17_PublishFailureMidBatch ==
    /\ [][\A i \in 1..MaxTicks :
            PublishFailed(i) => runs' = <<>> /\ UNCHANGED <<posted, lastUpdateOn>>]_vars
    /\ [](\A i \in DOMAIN runs :
            runs[i].pc = "publish" =>
                \A k \in DOMAIN runs[i].prs : runs[i].prs[k] \notin abandoned)

\* ---- C18
\* The messages the claim expects of the first n pull requests of a batch: one
\* for each that is open, closed or merged, in batch order, from that pull
\* request's own state and number, with an at-mention of the resolved DID when
\* the author has a decentralized handle and a link with the
\* resolveSocialHandle text otherwise.
RECURSIVE Messages(_, _)
Messages(prs, n) ==
    IF n = 0 THEN <<>>
    ELSE LET pr == prs[n]
             m == [kind |-> pr.state, number |-> pr.number, date |-> pr.updatedAt,
                   mention |-> pr.author.bsky # "",
                   ref |-> IF pr.author.bsky # ""
                           THEN <<"mention", "@" \o pr.author.bsky, Did(pr.author.bsky)>>
                           ELSE <<"link", Reference(pr.author, FirstPresent(pr.author)),
                                  pr.author.username>>]
         IN Messages(prs, n - 1) \o (IF pr.state = "draft" THEN <<>> ELSE <<m>>)

\* C18 (composer mapping): the messages a cycle has built are exactly those
\* of the open, closed and merged pull requests it has gone through, one each,
\* in batch order.
C18_ComposerMapping ==
    \A i \in DOMAIN runs :
        runs[i].pc = "publish" =>
            runs[i].out = Messages(runs[i].prs, runs[i].idx - 1)

\* ---- C19
\* The lifecycle change the feed shows for the pull request is one the bot is
\* to publish: not by an ignored user, to open, closed or merged, at or after
\* the initial watermark (the instant 1 of the construction).
ToPublish(raw) ==
    /\ raw.login \notin ignoreUsers
    /\ raw.state # "draft"
    /\ Lifecycle(raw) # Null
    /\ Lifecycle(raw) >= 1

\* The change is in the batch of a cycle that has still to publish it.
Pending(raw) ==
    \E i \in DOMAIN runs :
        /\ runs[i].pc = "publish"
        /\ \E k \in runs[i].idx..Len(runs[i].prs) : runs[i].prs[k] = ToInfo(raw)

\* C19 (no lost change): when no request and no post fails, a change to
\* publish is at every moment published, or in the batch being published, or
\* not older than the watermark, so that a later call still takes it; a change
\* made while a walk is in progress is no exception.
C19_NoLostChange ==
    \A k \in DOMAIN feed :
        ToPublish(feed[k]) =>
            \/ Msg(ToInfo(feed[k])) \in posted
            \/ Pending(feed[k])
            \/ Lifecycle(feed[k]) >= lastUpdateOn

\* ---- C20
\* C20 (start override as initial watermark): with START_FROM configured, the
\* batch of the first cycle holds every pull request of the walk, not by an
\* ignored user, whose lifecycle timestamp is at or after START_FROM; a cycle
\* that starts after a call has returned asks for the changes since the
\* watermark, not since START_FROM.
C20_StartOverride ==
    \A i \in DOMAIN runs :
        startFrom # NoStart =>
            /\ (runs[i].pc = "publish" /\ ticks = 1) =>
                   \A k \in DOMAIN runs[i].rawPulls :
                       LET raw == runs[i].rawPulls[k]
                       IN (raw.login \notin ignoreUsers /\ Lifecycle(raw) >= startFrom)
                              => InBatch(runs[i], raw)
            /\ (InFlight(runs[i]) /\ lastCall.outcome = "ok") =>
                   runs[i].since = runs[i].before

\* ---- C21
\* The URL of the account does not parse as the provider's profile URL: it is
\* no URL, or (decentralized network) its host is not bsky.app, or the handle
\* segment after the separator is empty.
ParseFails(social) ==
    \/ ~social.url.valid
    \/ social.provider = "bluesky" /\ social.url.hostname # "bsky.app"
    \/ social.provider = "bluesky" /\ SplitPop(social.url.pathname, "/profile/") = ""
    \/ social.provider = "mastodon" /\ SplitPop(social.url.pathname, "@") = ""

\* The accounts of the provider in the list converted.
Of(provider) ==
    {k \in DOMAIN socialUrls.data : socialUrls.data[k].provider = provider}

\* C21 (social URL parse failure is local): when the conversion of the list is
\* over, the handle of a decentralized or federated provider all of whose
\* URLs failed to parse is unset on the record, and the accounts of the other
\* providers are resolved all the same.
C21_ParseFailureIsLocal ==
    socialUrls.next > Len(socialUrls.data) =>
        /\ (\A k \in Of("bluesky") : ParseFails(socialUrls.data[k])) => user.bsky = ""
        /\ (\A k \in Of("mastodon") : ParseFails(socialUrls.data[k])) => user.mastodon = ""
        /\ (\E k \in Of("bluesky") : ~ParseFails(socialUrls.data[k])) => user.bsky # ""
        /\ (\E k \in Of("mastodon") : ~ParseFails(socialUrls.data[k])) => user.mastodon # ""
        /\ Of("twitter") # {} => user.twitter = "alice"
        /\ Of("reddit") # {} => user.reddit = "alice"

====
